---- MODULE Spec2Model ----
(***************************************************************************)
(* A model of tssim's generation engine:                                   *)
(*   - TimeFunction (tssim/core/function.py): construction, strategy       *)
(*     dispatch, the function adapter _evaluate_function, the vectorized   *)
(*     strategy and the iterated strategy (the generator yield_values is   *)
(*     modelled step by step);                                             *)
(*   - TimeSeries (tssim/series.py): add and generate.                     *)
(* Three specifications share the variables: Spec (TimeFunction),          *)
(* SpecAdapter (_evaluate_function alone) and SpecSeries (TimeSeries).     *)
(***************************************************************************)
EXTENDS Integers, Sequences, FiniteSets, TLC

\* ------------------------------------------------------------------ bounds
\* Longest time_units handed to TimeFunction.generate.
MaxLen == 3
\* Most local variables a raw callable declares (adapter specification).
MaxLocals == 2
\* Number of timestamps of the TimeSeries index.
MaxIdx == 2

\* The time units a step function may be applied to, and the values it yields.
Units == 0..(MaxLen - 1)
Val == 0..2
Tables == [Units -> Val]

\* ---------------------------------------------------------------- callables
(* A Python callable, as far as the adapter and the strategies look at it:  *)
(*   kind      "function" (has __code__ and __defaults__), "wrapper" (an    *)
(*             instance of a BaseWrapper subclass), "object" (a callable    *)
(*             without __code__, e.g. a builtin) or "None"                  *)
(*   args      the declared parameter names, in order                       *)
(*   ndefaults how many of them have defaults (0: __defaults__ is None)     *)
(*   locals    the names of the local variables of the body                 *)
(*   ret       what a call without arguments returns, as a one-element      *)
(*             sequence (<<>>: such a call returns no callable)             *)
(*   table     what a call with one time unit returns (<<>>: nothing)       *)
NoneFn ==
  [kind |-> "None", args |-> <<>>, ndefaults |-> 0, locals |-> <<>>,
   ret |-> <<>>, table |-> <<>>]

\* def g(x): return table[x]          with the given local variables
PlainFn(table, locals) ==
  [kind |-> "function", args |-> <<"x">>, ndefaults |-> 0, locals |-> locals,
   ret |-> <<>>, table |-> table]

\* def gen(): ...; return g            with the given local variables
GeneratorFn(g, locals) ==
  [kind |-> "function", args |-> <<>>, ndefaults |-> 0, locals |-> locals,
   ret |-> <<g>>, table |-> <<>>]

\* bool(x) of a callable or None
Truthy(x) == x.kind # "None"

\* A condition: None, or a predicate over values (the set where it holds).
NoneCond == [kind |-> "None", holds |-> {}]
Cond(S) == [kind |-> "function", holds |-> S]

\* A labeled series (pd.Series): labels and values, position by position.
EmptySeries == [index |-> <<>>, values |-> <<>>]

\* ------------------------------------------------------------------ state
VARIABLES
  pc,          \* TimeFunction: "new", "failed", "ready", "gen_next", "gen_cond", "done", "error"
  args,        \* the arguments of the constructor call
  self,        \* the TimeFunction instance: its three attributes
  err,         \* the exception the last call raised ("" for none)
  time_units,  \* the argument of the running generate call
  strategy,    \* the strategies the current generate call has run
  time_func,   \* the adapted function of the current call
  pos,         \* yield_values: how many time units the iterator has handed out
  current_val, \* yield_values: current_val
  values,      \* the values the generator has yielded so far
  result,      \* the series generate returned
  fcalls,      \* the time units the step function was called with, in order
  vcalls,      \* the whole sequences the vectorized function was called with
  ccalls,      \* the values the condition was evaluated on, one at a time
  invoked,     \* the callables invoked without arguments during adaptation
  araw,        \* adapter specification: the raw callable
  aout,        \* adapter specification: the outcome of _evaluate_function
  tracks,      \* TimeSeries.tracks: the registered (name, track) pairs, in insertion order
  sret         \* TimeSeries: what the last call returned or raised

vars ==
  <<pc, args, self, err, time_units, strategy, time_func, pos, current_val,
    values, result, fcalls, vcalls, ccalls, invoked, araw, aout, tracks, sret>>

tfVars ==
  <<pc, args, self, err, time_units, strategy, time_func, pos, current_val,
    values, result, fcalls, vcalls, ccalls, invoked>>
adVars == <<araw, aout>>
tsVars == <<tracks, sret>>

\* ---------------------------------------------------------- function adapter
\* function.__code__.co_varnames: the parameter names, then the local names
CoVarnames(function) == function.args \o function.locals

\* len(function.__defaults__), 0 when __defaults__ is None (the TypeError)
KwargsCount(function) == function.ndefaults

\* karg_count: what the adapter takes for the number of required arguments
KargCount(function) == Len(CoVarnames(function)) - KwargsCount(function)

\* "size" in arg_names
HasSize(function) == \E i \in 1..Len(CoVarnames(function)) : CoVarnames(function)[i] = "size"

\* function(): what a call without arguments returns (None when it returns no callable)
CallNoArgs(function) == IF function.ret = <<>> THEN NoneFn ELSE function.ret[1]

\* The outcome of an adaptation: the exception raised ("" for none), the
\* function returned, whether it is the lambda that passes size=x.shape[0],
\* and the callables invoked on the way, in order.
Adapted(func, sized, calls) == [error |-> "", func |-> func, sized |-> sized, calls |-> calls]
AdaptError(e, calls) == [error |-> e, func |-> NoneFn, sized |-> FALSE, calls |-> calls]

\* TimeFunction._evaluate_function
RECURSIVE EvaluateFunction(_)
EvaluateFunction(function) ==
  IF function.kind = "wrapper"
    THEN Adapted(CallNoArgs(function), FALSE, <<function>>)
  ELSE IF function.kind # "function"
    THEN Adapted(function, FALSE, <<>>)           \* AttributeError: return function
  ELSE IF KargCount(function) > 1
    THEN AdaptError("ValueError", <<>>)
  ELSE IF KargCount(function) = 0 /\ HasSize(function)
    THEN Adapted(function, TRUE, <<>>)            \* lambda x: function(size=x.shape[0])
  ELSE IF KargCount(function) = 1
    THEN Adapted(function, FALSE, <<>>)
  ELSE LET inner == EvaluateFunction(CallNoArgs(function))
       IN  [inner EXCEPT !.calls = <<function>> \o @]

\* Whether Python accepts the call fn(x) with one positional argument.
AcceptsOneArg(fn) ==
  /\ fn.kind = "function"
  /\ Len(fn.args) >= 1
  /\ Len(fn.args) - fn.ndefaults =< 1
  /\ fn.table # <<>>

\* time_func(x) for one time unit x: the value, or the exception raised
\* (the size lambda reads x.shape of a number; a function of no parameter
\* or None itself cannot be called with one argument).
CallScalar(ev, x) ==
  IF ev.sized THEN [error |-> "AttributeError", value |-> 0]
  ELSE IF ~AcceptsOneArg(ev.func) THEN [error |-> "TypeError", value |-> 0]
  ELSE [error |-> "", value |-> ev.func.table[x]]

\* time_func(time_units) for the whole series: one value per time unit
\* (function(size=n) returns n values), or the exception raised.
CallWhole(ev, tu) ==
  IF ev.sized /\ ev.func.table # <<>>
    THEN [error |-> "", values |-> [i \in 1..Len(tu.values) |-> ev.func.table[i - 1]]]
  ELSE IF ~AcceptsOneArg(ev.func) THEN [error |-> "TypeError", values |-> <<>>]
  ELSE [error |-> "", values |-> [i \in 1..Len(tu.values) |-> ev.func.table[tu.values[i]]]]

\* ------------------------------------------------------------ TimeFunction
\* The timestamp labelling position i of a time index.
Label(i) == 10 * i

\* time_units of length n: a series of the time units 0, 1, ... labeled by timestamps
TimeUnits(n) == [index |-> [i \in 1..n |-> Label(i)], values |-> [i \in 1..n |-> i - 1]]

\* A mutant of InitRaises: the check is missing.
InitRaisesNever(vectorized, iterated) == FALSE

\* __init__: not (vectorized or iterated)
InitRaises(vectorized, iterated) == ~(Truthy(vectorized) \/ Truthy(iterated))

\* A mutant of Dispatch: the vectorized function is preferred whenever it is set.
DispatchVectorizedFirst(tf) ==
  IF Truthy(tf.vectorized) THEN <<"vectorized">> ELSE <<"iterated">>

\* generate: the strategies one call runs, in order (each branch returns)
Dispatch(tf) ==
  IF Truthy(tf.condition) /\ Truthy(tf.iterated) THEN <<"iterated">>
  ELSE IF Truthy(tf.vectorized) THEN <<"vectorized">>
  ELSE <<"iterated">>

\* series[mask] from position i on: the labeled entries whose mask is true
RECURSIVE MaskFrom(_, _, _)
MaskFrom(series, mask, i) ==
  IF i > Len(series.values) THEN EmptySeries
  ELSE LET rest == MaskFrom(series, mask, i + 1)
       IN  IF mask[i]
             THEN [index |-> <<series.index[i]>> \o rest.index,
                   values |-> <<series.values[i]>> \o rest.values]
             ELSE rest

\* A mutant of MaskSeries: the entries before the first false mask only.
RECURSIVE TakeWhileFrom(_, _, _)
TakeWhileFrom(series, mask, i) ==
  IF i > Len(series.values) \/ ~mask[i] THEN EmptySeries
  ELSE LET rest == TakeWhileFrom(series, mask, i + 1)
       IN  [index |-> <<series.index[i]>> \o rest.index,
            values |-> <<series.values[i]>> \o rest.values]

MaskSeriesPrefix(series, mask) == TakeWhileFrom(series, mask, 1)

\* time_values[mask]
MaskSeries(series, mask) == MaskFrom(series, mask, 1)

\* self.condition(time_values): the elementwise mask over a series
ConditionMask(condition, series) ==
  [i \in 1..Len(series.values) |-> series.values[i] \in condition.holds]

\* _generate_vectorized: the exception raised ("" for none), the series
\* returned, the callables invoked while adapting and the whole-series calls made
GenerateVectorized(tf, tu) ==
  LET ev == EvaluateFunction(tf.vectorized)
      r  == CallWhole(ev, tu)
      labeled == [index |-> tu.index, values |-> r.values]
  IN  IF ev.error # ""
        THEN [error |-> ev.error, series |-> EmptySeries, calls |-> ev.calls, vcalls |-> <<>>]
      ELSE IF r.error # ""
        THEN [error |-> r.error, series |-> EmptySeries, calls |-> ev.calls, vcalls |-> <<tu.values>>]
      ELSE [error |-> "",
            series |-> IF Truthy(tf.condition)
                         THEN MaskSeries(labeled, ConditionMask(tf.condition, labeled))
                         ELSE labeled,
            calls |-> ev.calls, vcalls |-> <<tu.values>>]

\* time_units.apply(time_func): one call per time unit, in order; the first
\* call that raises ends it
ApplySeries(ev, tu) ==
  IF Len(tu.values) > 0 /\ CallScalar(ev, tu.values[1]).error # ""
    THEN [error |-> CallScalar(ev, tu.values[1]).error, series |-> EmptySeries,
          fcalls |-> <<tu.values[1]>>]
    ELSE [error |-> "",
          series |-> [index |-> tu.index,
                      values |-> [i \in 1..Len(tu.values) |-> CallScalar(ev, tu.values[i]).value]],
          fcalls |-> tu.values]

\* time_units[:n].index
PrefixIndex(tu, n) == SubSeq(tu.index, 1, n)

\* The instance attributes before (or without) a successful construction.
NoInstance == [vectorized |-> NoneFn, iterated |-> NoneFn, condition |-> NoneCond]
NoArgs == NoInstance
NoAdapt == Adapted(NoneFn, FALSE, <<>>)

\* TimeFunction(vectorized, iterated, condition)
TimeFunctionInit(vectorized, iterated, condition) ==
  /\ pc = "new"
  /\ args' = [vectorized |-> vectorized, iterated |-> iterated, condition |-> condition]
  /\ IF InitRaises(vectorized, iterated)
       THEN /\ pc' = "failed"
            /\ err' = "ValueError"
            /\ self' = self
       ELSE /\ pc' = "ready"
            /\ err' = ""
            /\ self' = [vectorized |-> vectorized, iterated |-> iterated,
                        condition |-> condition]
  /\ UNCHANGED <<time_units, strategy, time_func, pos, current_val, values,
                 result, fcalls, vcalls, ccalls, invoked>>
  /\ UNCHANGED <<adVars, tsVars>>

\* generate(time_units), up to its return, its exception or, for the iterated
\* strategy under a condition, the start of the generator yield_values
Generate(n) ==
  /\ pc \in {"ready", "done", "error"}
  /\ time_units' = TimeUnits(n)
  /\ strategy' = Dispatch(self)
  /\ pos' = 0
  /\ current_val' = 0
  /\ values' = <<>>
  /\ ccalls' = <<>>
  /\ IF Head(Dispatch(self)) = "vectorized"
       THEN LET r == GenerateVectorized(self, TimeUnits(n))
            IN  /\ pc' = IF r.error = "" THEN "done" ELSE "error"
                /\ err' = r.error
                /\ result' = r.series
                /\ invoked' = r.calls
                /\ vcalls' = r.vcalls
                /\ fcalls' = <<>>
                /\ time_func' = EvaluateFunction(self.vectorized)
       ELSE LET ev == EvaluateFunction(self.iterated)
                r  == ApplySeries(ev, TimeUnits(n))
            IN  /\ time_func' = ev
                /\ invoked' = ev.calls
                /\ vcalls' = <<>>
                /\ IF ev.error # ""
                     THEN /\ pc' = "error"
                          /\ err' = ev.error
                          /\ result' = EmptySeries
                          /\ fcalls' = <<>>
                   ELSE IF Truthy(self.condition)
                     THEN /\ pc' = "gen_next"
                          /\ err' = ""
                          /\ result' = EmptySeries
                          /\ fcalls' = <<>>
                   ELSE /\ pc' = IF r.error = "" THEN "done" ELSE "error"
                        /\ err' = r.error
                        /\ result' = r.series
                        /\ fcalls' = r.fcalls
  /\ UNCHANGED <<args, self>>
  /\ UNCHANGED <<adVars, tsVars>>

\* values = list(yield_values()) is complete: index and time_values are built
\* and _generate_iterated returns
Finish ==
  /\ pc' = "done"
  /\ err' = ""
  /\ result' = [index |-> PrefixIndex(time_units, Len(values)), values |-> values]

\* yield_values: current_val = time_func(next(iterator)), a time unit being left
GenNext ==
  /\ pc = "gen_next"
  /\ pos < Len(time_units.values)
  /\ LET x == time_units.values[pos + 1]
         r == CallScalar(time_func, x)
     IN  /\ pos' = pos + 1
         /\ fcalls' = Append(fcalls, x)
         /\ IF r.error # ""
              THEN /\ pc' = "error"
                   /\ err' = r.error
                   /\ current_val' = current_val
              ELSE /\ pc' = "gen_cond"
                   /\ err' = ""
                   /\ current_val' = r.value
  /\ UNCHANGED <<args, self, time_units, strategy, time_func, values, result,
                 vcalls, ccalls, invoked>>
  /\ UNCHANGED <<adVars, tsVars>>

\* yield_values: next(iterator) raises StopIteration inside the generator, on
\* an interpreter where that ends the generator silently (Python before 3.7)
GenExhaustedStop ==
  /\ pc = "gen_next"
  /\ pos >= Len(time_units.values)
  /\ Finish
  /\ UNCHANGED <<args, self, time_units, strategy, time_func, pos, current_val,
                 values, fcalls, vcalls, ccalls, invoked>>
  /\ UNCHANGED <<adVars, tsVars>>

\* yield_values: next(iterator) raises StopIteration inside the generator, on
\* an interpreter that turns it into RuntimeError (PEP 479, Python 3.7 on);
\* list() propagates it out of generate
GenExhaustedRaise ==
  /\ pc = "gen_next"
  /\ pos >= Len(time_units.values)
  /\ pc' = "error"
  /\ err' = "RuntimeError"
  /\ UNCHANGED <<args, self, time_units, strategy, time_func, pos, current_val,
                 values, result, fcalls, vcalls, ccalls, invoked>>
  /\ UNCHANGED <<adVars, tsVars>>

\* A mutant of GenCond: the value is yielded before the condition is looked at,
\* so the failing value is part of the result.
GenCondInclusive ==
  /\ pc = "gen_cond"
  /\ ccalls' = Append(ccalls, current_val)
  /\ values' = Append(values, current_val)
  /\ IF current_val \in self.condition.holds
       THEN /\ pc' = "gen_next"
            /\ UNCHANGED <<err, result>>
       ELSE /\ pc' = "done"
            /\ err' = ""
            /\ result' = [index |-> PrefixIndex(time_units, Len(values) + 1),
                          values |-> Append(values, current_val)]
  /\ UNCHANGED <<args, self, time_units, strategy, time_func, pos, current_val,
                 fcalls, vcalls, invoked>>
  /\ UNCHANGED <<adVars, tsVars>>

\* A mutant of GenCond: a failing value is dropped and the loop goes on (a
\* filter instead of an early stop).
GenCondSkip ==
  /\ pc = "gen_cond"
  /\ ccalls' = Append(ccalls, current_val)
  /\ values' = IF current_val \in self.condition.holds
                 THEN Append(values, current_val) ELSE values
  /\ pc' = "gen_next"
  /\ UNCHANGED <<err, result>>
  /\ UNCHANGED <<args, self, time_units, strategy, time_func, pos, current_val,
                 fcalls, vcalls, invoked>>
  /\ UNCHANGED <<adVars, tsVars>>

\* yield_values: while self.condition(current_val): yield current_val
GenCond ==
  /\ pc = "gen_cond"
  /\ ccalls' = Append(ccalls, current_val)
  /\ IF current_val \in self.condition.holds
       THEN /\ values' = Append(values, current_val)
            /\ pc' = "gen_next"
            /\ UNCHANGED <<err, result>>
       ELSE /\ values' = values
            /\ Finish
  /\ UNCHANGED <<args, self, time_units, strategy, time_func, pos, current_val,
                 fcalls, vcalls, invoked>>
  /\ UNCHANGED <<adVars, tsVars>>

\* The callables a TimeFunction is built from, for one value table.
VecShapes(table) ==
  {NoneFn, PlainFn(table, <<>>), GeneratorFn(PlainFn(table, <<>>), <<>>)}
IterShapes(table) ==
  {NoneFn, PlainFn(table, <<>>), GeneratorFn(PlainFn(table, <<>>), <<>>),
   PlainFn(table, <<"tmp">>)}
Conds == {NoneCond} \cup {Cond(S) : S \in SUBSET Val}

Init ==
  /\ pc = "new"
  /\ args = NoArgs
  /\ self = NoInstance
  /\ err = ""
  /\ time_units = EmptySeries
  /\ strategy = <<>>
  /\ time_func = NoAdapt
  /\ pos = 0
  /\ current_val = 0
  /\ values = <<>>
  /\ result = EmptySeries
  /\ fcalls = <<>>
  /\ vcalls = <<>>
  /\ ccalls = <<>>
  /\ invoked = <<>>
  /\ araw = NoneFn
  /\ aout = NoAdapt
  /\ tracks = <<>>
  /\ sret = [kind |-> "none"]

Next ==
  \/ \E table \in Tables : \E v \in VecShapes(table), i \in IterShapes(table), c \in Conds :
       TimeFunctionInit(v, i, c)
  \/ \E n \in 0..MaxLen : Generate(n)
  \/ GenNext
  \/ GenExhaustedStop
  \/ GenExhaustedRaise
  \/ GenCond

Spec == Init /\ [][Next]_vars

\* ------------------------------------------------- claims about TimeFunction
\* The current generate call runs the iterated strategy under a condition with
\* an adapted step function f of one argument.
IteratedWithCondition ==
  /\ strategy = <<"iterated">>
  /\ Truthy(self.condition)
  /\ time_func.error = ""
  /\ ~time_func.sized
  /\ AcceptsOneArg(time_func.func)

\* f(time_points[i]) and c(f(time_points[i])) for the current call
StepValue(i) == time_func.func.table[time_units.values[i]]
StepHolds(i) == StepValue(i) \in self.condition.holds

\* The positions (1-based) where the condition is false, and the first of them
FailPositions == {i \in 1..Len(time_units.values) : ~StepHolds(i)}
FirstFail == CHOOSE i \in FailPositions : \A j \in FailPositions : i =< j

\* C1: every generate call runs exactly one strategy, chosen in the order:
\* condition and iterated both set -> iterated (also when vectorized is set);
\* otherwise vectorized set -> vectorized; otherwise -> iterated.  The strategy
\* that ran is also the one whose function was called.
C1_DispatchPriority ==
  pc \in {"gen_next", "gen_cond", "done", "error"} =>
    /\ Len(strategy) = 1
    /\ (Truthy(self.condition) /\ Truthy(self.iterated)) => strategy[1] = "iterated"
    /\ (~(Truthy(self.condition) /\ Truthy(self.iterated)) /\ Truthy(self.vectorized))
         => strategy[1] = "vectorized"
    /\ (~(Truthy(self.condition) /\ Truthy(self.iterated)) /\ ~Truthy(self.vectorized))
         => strategy[1] = "iterated"
    /\ strategy[1] = "iterated" => vcalls = <<>>
    /\ strategy[1] = "vectorized" => fcalls = <<>> /\ ccalls = <<>>
    /\ (pc = "done" /\ strategy[1] = "vectorized") => vcalls = <<time_units.values>>

\* C1 witness: all three set, and the call ran the iterated strategy to its end.
C1_Witness ==
  /\ pc = "done"
  /\ Truthy(self.vectorized) /\ Truthy(self.iterated) /\ Truthy(self.condition)
  /\ strategy = <<"iterated">>
  /\ Len(fcalls) = 2

\* C2: under the iterated strategy with a condition that first fails at
\* position k, generate raises nothing and returns exactly f(time_points[0..k))
\* labeled with the first k timestamps.
C2_PrefixUpToFirstFailure ==
  (IteratedWithCondition /\ FailPositions # {}) =>
    /\ pc # "error"
    /\ pc = "done" =>
         /\ result.values = [i \in 1..(FirstFail - 1) |-> StepValue(i)]
         /\ result.index = [i \in 1..(FirstFail - 1) |-> time_units.index[i]]

\* C2 witness: the condition fails in the middle and would hold again later;
\* the result is the non-empty prefix before the failure.
C2_Witness ==
  /\ pc = "done"
  /\ IteratedWithCondition
  /\ FailPositions # {}
  /\ FirstFail = 2
  /\ Len(time_units.values) = 3
  /\ StepHolds(3)
  /\ Len(result.values) = 1

\* C3: under the iterated strategy with a condition that holds for every
\* produced value (an empty time_points included), generate raises nothing and
\* returns one value per timestamp.
C3_ExhaustionIsNormalStop ==
  (IteratedWithCondition /\ FailPositions = {}) =>
    /\ pc # "error"
    /\ pc = "done" =>
         /\ result.values = [i \in 1..Len(time_units.values) |-> StepValue(i)]
         /\ result.index = time_units.index

\* C6: under the vectorized strategy with a condition, f is called once on the
\* whole time_points and the result holds exactly the entries whose value
\* satisfies the condition, each with its own label, in the original order.
KeptPositions ==
  {i \in 1..Len(time_units.values) :
     time_func.func.table[time_units.values[i]] \in self.condition.holds}
\* the j-th smallest kept position
KeptAt(j) == CHOOSE i \in KeptPositions : Cardinality({m \in KeptPositions : m =< i}) = j

C6_VectorizedKeepsSubset ==
  (pc = "done" /\ strategy = <<"vectorized">> /\ Truthy(self.condition)) =>
    /\ ~Truthy(self.iterated)
    /\ vcalls = <<time_units.values>>
    /\ Len(result.values) = Cardinality(KeptPositions)
    /\ Len(result.index) = Cardinality(KeptPositions)
    /\ \A j \in 1..Cardinality(KeptPositions) :
         /\ result.index[j] = time_units.index[KeptAt(j)]
         /\ result.values[j] = time_func.func.table[time_units.values[KeptAt(j)]]

\* C6 witness: the kept entries are at positions 1 and 3, not a prefix.
C6_Witness ==
  /\ pc = "done" /\ strategy = <<"vectorized">> /\ Truthy(self.condition)
  /\ Len(time_units.values) = 3
  /\ KeptPositions = {1, 3}
  /\ result.index = <<Label(1), Label(3)>>

\* C9: a construction with neither function raises ValueError and leaves no
\* instance; a constructed TimeFunction never runs a strategy whose function
\* is unset.
C9_NoStrategyWithoutFunction ==
  /\ (pc # "new" /\ ~Truthy(args.vectorized) /\ ~Truthy(args.iterated)) =>
       /\ pc = "failed"
       /\ err = "ValueError"
       /\ self = NoInstance
       /\ strategy = <<>>
  /\ \A k \in 1..Len(strategy) :
       /\ strategy[k] = "iterated" => Truthy(self.iterated)
       /\ strategy[k] = "vectorized" => Truthy(self.vectorized)

\* C9 witness: the constructor was called with neither function, and raised.
C9_Witness ==
  /\ pc = "failed"
  /\ ~Truthy(args.vectorized) /\ ~Truthy(args.iterated)
  /\ Truthy(args.condition)

\* C10: under the iterated strategy with a condition, the step function is
\* called on the time units in index order, each value is checked before the
\* next unit is consumed, and after a failure at position k neither is called
\* again: k+1 calls of each.
C10_EarlyTermination ==
  IteratedWithCondition =>
    /\ fcalls = SubSeq(time_units.values, 1, Len(fcalls))
    /\ Len(fcalls) = pos
    /\ ccalls = [i \in 1..Len(ccalls) |-> StepValue(i)]
    /\ pc = "gen_cond" => Len(fcalls) = Len(ccalls) + 1
    /\ pc = "gen_next" => Len(fcalls) = Len(ccalls)
    /\ FailPositions # {} =>
         /\ Len(fcalls) =< FirstFail
         /\ Len(ccalls) =< FirstFail
         /\ pc = "done" => Len(fcalls) = FirstFail /\ Len(ccalls) = FirstFail

\* C10 witness: the condition failed at the second of three time units and the
\* generator stopped after two calls of each.
C10_Witness ==
  /\ pc = "done"
  /\ IteratedWithCondition
  /\ FailPositions # {}
  /\ FirstFail = 2
  /\ Len(time_units.values) = 3
  /\ fcalls = <<0, 1>>
  /\ Len(ccalls) = 2

\* ------------------------------------------ the adapter alone (SpecAdapter)
\* Two value tables for the callables handed to the adapter.
IdTable == [u \in Units |-> u % 3]
OneTable == [u \in Units |-> 1]

\* Names for the local variables of a body; the first n are the locals of a
\* body with n of them (an inner def is a local variable of its generator).
LocalNames == <<"g", "tmp", "acc", "out">>
LocalLists ==
  {SubSeq(LocalNames, 1, n) : n \in 0..MaxLocals}
    \cup {SubSeq(LocalNames, 1, n) \o <<"size">> : n \in 0..(MaxLocals - 1)}

\* Declared parameter lists.
ArgLists == {<<>>, <<"x">>, <<"size">>, <<"x", "size">>, <<"x", "y">>}

\* What a raw callable may return when called without arguments.
InnerFns ==
  {PlainFn(IdTable, <<>>), PlainFn(OneTable, <<>>), PlainFn(IdTable, <<"tmp">>),
   PlainFn(IdTable, <<"tmp", "acc">>), GeneratorFn(PlainFn(IdTable, <<>>), <<>>)}
Returns == {<<>>} \cup {<<g>> : g \in InnerFns}

RawFunctions ==
  {[kind |-> "function", args |-> a, ndefaults |-> d, locals |-> l, ret |-> r,
    table |-> IF a = <<>> THEN <<>> ELSE IdTable] :
     a \in ArgLists, d \in 0..2, l \in LocalLists, r \in Returns}

RawCallables ==
  {f \in RawFunctions : f.ndefaults =< Len(f.args)}
    \cup {[kind |-> "wrapper", args |-> <<>>, ndefaults |-> 0, locals |-> <<>>,
           ret |-> <<g>>, table |-> <<>>] : g \in InnerFns}
    \cup {[kind |-> "object", args |-> <<>>, ndefaults |-> 0, locals |-> <<>>,
           ret |-> <<>>, table |-> IdTable]}

\* self._evaluate_function(raw) for one raw callable
Adapt(raw) ==
  /\ araw' = raw
  /\ aout' = EvaluateFunction(raw)
  /\ UNCHANGED <<tfVars, tsVars>>

NextAdapter == \E raw \in RawCallables : Adapt(raw)

SpecAdapter == Init /\ [][NextAdapter]_vars

\* The number of required parameters a signature declares.
Required(function) == Len(function.args) - function.ndefaults
DeclaresSize(function) == \E i \in 1..Len(function.args) : function.args[i] = "size"

\* C4: a raw function with zero required parameters and no size parameter
\* that returns a one-argument callable g is invoked once and adapts to g
\* itself, whatever local variables its body declares.
C4_GeneratorResolution ==
  (/\ araw.kind = "function"
   /\ Required(araw) = 0
   /\ ~DeclaresSize(araw)
   /\ araw.ret # <<>>
   /\ CallNoArgs(araw).kind = "function"
   /\ Required(CallNoArgs(araw)) = 1
   /\ CallNoArgs(araw).locals = <<>>)
  => /\ aout.error = ""
     /\ aout.func = CallNoArgs(araw)
     /\ ~aout.sized
     /\ aout.calls = <<araw>>

\* C5: a raw function with exactly one required parameter is returned
\* unchanged, is not invoked and is not rejected, whatever local variables its
\* body declares.
C5_ArityFromSignature ==
  (araw.kind = "function" /\ Required(araw) = 1)
  => /\ aout.error = ""
     /\ aout.func = araw
     /\ ~aout.sized
     /\ aout.calls = <<>>

\* ---------------------------------------------------------------- TimeSeries
\* The track names callers use, and the slopes of the tracks: a track of
\* slope v has the value v * i at the i-th timestamp of the index.
Names == {"a", "b", "c"}
TrackVals == {-1, 1}

\* TimeSeries.index: the timestamps of the series
SeriesIndex == [i \in 1..MaxIdx |-> Label(i)]

\* The series a track can generate: any subset of the index (a prefix when an
\* iterated function was cut short by its condition), in index order.
TrackOutputs ==
  {MaskFrom([index |-> SeriesIndex, values |-> [i \in 1..MaxIdx |-> v * i]],
            [i \in 1..MaxIdx |-> i \in K], 1) :
     K \in SUBSET (1..MaxIdx), v \in TrackVals}

\* TimeTrack.generate(): an object whose .values is the generated series
TrackGenerate(track) == [values |-> track.out]

\* name in self.tracks
Registered(reg, name) == \E i \in 1..Len(reg) : reg[i].name = name

\* A mutant of TimeSeriesAdd: no check, the assignment replaces the track.
TimeSeriesAddOverwrite(reg, name, track) ==
  [raised |-> FALSE,
   tracks |-> IF Registered(reg, name)
                THEN [i \in 1..Len(reg) |->
                        IF reg[i].name = name THEN [name |-> name, track |-> track]
                        ELSE reg[i]]
                ELSE Append(reg, [name |-> name, track |-> track])]

\* TimeSeries.add: whether it raises ValueError, and self.tracks after it
TimeSeriesAdd(reg, name, track) ==
  IF Registered(reg, name)
    THEN [raised |-> TRUE, tracks |-> reg]
    ELSE [raised |-> FALSE, tracks |-> Append(reg, [name |-> name, track |-> track])]

\* The labels of a series, as a set.
LabelSet(series) == {series.index[i] : i \in 1..Len(series.index)}

\* A finite set of timestamps in ascending order.
RECURSIVE Sorted(_)
Sorted(S) ==
  IF S = {} THEN <<>>
  ELSE LET m == CHOOSE x \in S : \A y \in S : x =< y
       IN  <<m>> \o Sorted(S \ {m})

\* A mutant of ConcatIndex: the labels every series has (join="inner").
ConcatIndexInner(columns) ==
  Sorted({l \in UNION {LabelSet(columns[i]) : i \in 1..Len(columns)} :
            \A i \in 1..Len(columns) : l \in LabelSet(columns[i])})

\* pd.concat(track_values, axis=1): the row labels, the union of the labels
ConcatIndex(columns) == Sorted(UNION {LabelSet(columns[i]) : i \in 1..Len(columns)})

\* The cell of a column at a row label: <<value>>, or <<>> for NaN
Cell(series, label) ==
  IF label \in LabelSet(series)
    THEN <<series.values[CHOOSE i \in 1..Len(series.index) : series.index[i] = label]>>
    ELSE <<>>

\* .sum(axis=1) for one row: the cells from column i on, NaN skipped
RECURSIVE RowSum(_, _, _)
RowSum(columns, label, i) ==
  IF i > Len(columns) THEN 0
  ELSE (IF Cell(columns[i], label) = <<>> THEN 0 ELSE Cell(columns[i], label)[1])
         + RowSum(columns, label, i + 1)

\* pd.concat(track_values, axis=1).sum(axis=1)
ConcatSum(columns) ==
  LET idx == ConcatIndex(columns)
  IN  [index |-> idx, values |-> [r \in 1..Len(idx) |-> RowSum(columns, idx[r], 1)]]

\* TimeSeries.generate: the TimeSeriesResult, or ValueError (pd.concat of no
\* series: "No objects to concatenate")
TimeSeriesGenerate(reg) ==
  LET generated == [i \in 1..Len(reg) |->
                      [name |-> reg[i].name, result |-> TrackGenerate(reg[i].track)]]
      track_values == [i \in 1..Len(reg) |-> generated[i].result.values]
  IN  IF Len(reg) = 0
        THEN [kind |-> "ValueError", call |-> "generate", name |-> ""]
        ELSE [kind |-> "result", call |-> "generate", name |-> "",
              tracks |-> generated, values |-> ConcatSum(track_values)]

\* series.add(name, ...)
Add(name, track) ==
  /\ tracks' = TimeSeriesAdd(tracks, name, track).tracks
  /\ sret' = [kind |-> IF TimeSeriesAdd(tracks, name, track).raised THEN "ValueError" ELSE "None",
              call |-> "add", name |-> name]
  /\ UNCHANGED <<tfVars, adVars>>

\* series.generate()
SeriesGenerate ==
  /\ sret' = TimeSeriesGenerate(tracks)
  /\ UNCHANGED tracks
  /\ UNCHANGED <<tfVars, adVars>>

NextSeries ==
  \/ \E name \in Names, out \in TrackOutputs : Add(name, [out |-> out])
  \/ SeriesGenerate

SpecSeries == Init /\ [][NextSeries]_vars

\* The sum of f over a finite set.
RECURSIVE SumOver(_, _)
SumOver(S, f) ==
  IF S = {} THEN 0
  ELSE LET x == CHOOSE y \in S : TRUE IN f[x] + SumOver(S \ {x}, f)

\* The registry reordered by a permutation of its positions.
Reordered(reg, p) == [i \in 1..Len(reg) |-> reg[p[i]]]

\* C7: the aggregate is indexed by the union of the tracks' timestamps, its
\* value at a timestamp is the sum of the values of exactly the tracks that
\* have that timestamp, and no reordering of the tracks changes it.
C7_AggregateIsAlignedSum ==
  sret.kind = "result" =>
    LET per == [i \in 1..Len(sret.tracks) |-> sret.tracks[i].result.values]
        agg == sret.values
        Having(l) == {i \in 1..Len(per) : l \in LabelSet(per[i])}
        ValueAt(l) ==
          SumOver(Having(l),
                  [i \in Having(l) |->
                     per[i].values[CHOOSE k \in 1..Len(per[i].index) : per[i].index[k] = l]])
    IN  /\ Len(per) = Len(tracks)
        /\ \A i \in 1..Len(per) : per[i] = tracks[i].track.out
        /\ LabelSet(agg) = UNION {LabelSet(per[i]) : i \in 1..Len(per)}
        /\ Len(agg.index) = Cardinality(LabelSet(agg))
        /\ Len(agg.values) = Len(agg.index)
        /\ \A r \in 1..Len(agg.index) : agg.values[r] = ValueAt(agg.index[r])
        /\ \A p \in Permutations(1..Len(tracks)) :
             TimeSeriesGenerate(Reordered(tracks, p)).values = agg

\* C7 witness: two tracks, the second cut short; at the last timestamp the
\* aggregate is the first track's value alone.
C7_Witness ==
  /\ sret.kind = "result"
  /\ Len(tracks) = 2
  /\ Len(tracks[1].track.out.index) = MaxIdx
  /\ Len(tracks[2].track.out.index) = MaxIdx - 1
  /\ tracks[2].track.out.index = SubSeq(SeriesIndex, 1, MaxIdx - 1)
  /\ tracks[1].track.out.values[1] = 1
  /\ tracks[2].track.out.values[1] = 1
  /\ sret.values.index = SeriesIndex
  /\ sret.values.values[1] = 2
  /\ sret.values.values[MaxIdx] = tracks[1].track.out.values[MaxIdx]

\* C8: an add under a registered name raises ValueError and changes nothing;
\* every registered name keeps the track of its first add, in every step; the
\* registered names are pairwise distinct.
C8_DuplicateAddRejected ==
  [][/\ (sret'.call = "add" /\ Registered(tracks, sret'.name)) =>
          (sret'.kind = "ValueError" /\ tracks' = tracks)
     /\ Len(tracks') >= Len(tracks)
     /\ \A i \in 1..Len(tracks) : tracks'[i] = tracks[i]
     /\ \A i, j \in 1..Len(tracks') : tracks'[i].name = tracks'[j].name => i = j]_vars

\* C8 witness: an add under a registered name has just raised.
C8_Witness ==
  /\ sret.kind = "ValueError"
  /\ sret.call = "add"
  /\ Registered(tracks, sret.name)
  /\ Len(tracks) = 2

====
